---- MODULE Spec2Model ----
(***************************************************************************)
(* Model of the SoW risk rule evaluator (risk_assesment_rule_engine.py).   *)
(*                                                                         *)
(* Python values are modelled as follows.                                  *)
(*   - a dict is a function with a finite set of string keys; an absent    *)
(*     key is a key outside DOMAIN, read through DictGet as d.get(k, dflt) *)
(*   - a list is a sequence                                                *)
(*   - None is the string "None" where the slot otherwise holds a string   *)
(*   - sufficiency and confidence values (floats in the code) are counted  *)
(*     in tenths: 6 stands for 0.6                                         *)
(*   - the reported model_confidence is counted in hundredths, the unit    *)
(*     round(x, 2) produces                                                *)
(***************************************************************************)
EXTENDS Integers, Sequences, FiniteSets, TLC

VARIABLES RULEPACK, reload_response, threads, args, ret

vars == <<RULEPACK, reload_response, threads, args, ret>>

(***************************************************************************)
(* Python helpers                                                          *)
(***************************************************************************)
EmptyDict == <<>>

\* d.get(k, default)
DictGet(d, k, default) == IF k \in DOMAIN d THEN d[k] ELSE default

Min(a, b) == IF a <= b THEN a ELSE b

Max(a, b) == IF a >= b THEN a ELSE b

RECURSIVE SumSeq(_)
SumSeq(s) == IF s = <<>> THEN 0 ELSE Head(s) + SumSeq(Tail(s))

\* str.lower() on the strings the model's inputs are drawn from
LowerTable ==
  [ UAE |-> "uae", uae |-> "uae", PK |-> "pk", pk |-> "pk", IR |-> "ir",
    Offshore |-> "offshore", offshore |-> "offshore",
    Fund |-> "fund", fund |-> "fund", Savings |-> "savings",
    Account |-> "account" ]

lower(s) == IF s \in DOMAIN LowerTable THEN LowerTable[s] ELSE s

\* a clamp that forgets the upper bound
clamp_without_upper(x, lo, hi) == Max(lo, x)

\* clamp(x, lo, hi) = max(lo, min(hi, x))
clamp(x, lo, hi) == Max(lo, Min(hi, x))

\* any_in: the first target whose lower-case form is in the lower-cased
\* collection, "None" when there is none
RECURSIVE AnyInLoop(_, _, _)
AnyInLoop(s, targets, i) ==
  IF i > Len(targets) THEN "None"
  ELSE IF lower(targets[i]) \in s THEN targets[i]
  ELSE AnyInLoop(s, targets, i + 1)

any_in(collection, targets) ==
  AnyInLoop({lower(collection[j]) : j \in 1..Len(collection)}, targets, 1)

MismatchAlignments == {"partial", "mismatch", "missing"}

\* exists_alignment_mismatch: item.get(key) is None for an absent key, and
\* None is in neither list
exists_alignment_mismatch(dvds, types) ==
  \E i \in 1..Len(dvds) :
     /\ DictGet(dvds[i], "source_type", "None") \in types
     /\ DictGet(dvds[i], "alignment", "None") \in MismatchAlignments

\* collect_alignment_points: the loop returns cap as soon as the running
\* sum reaches it, and min(pts, cap) after the last item
RECURSIVE CollectLoop(_, _, _, _, _)
CollectLoop(dvds, mapping, cap, i, pts) ==
  IF i > Len(dvds) THEN Min(pts, cap)
  ELSE LET p == pts + DictGet(mapping, DictGet(dvds[i], "alignment", "aligned"), 0)
       IN  IF p >= cap THEN cap
           ELSE CollectLoop(dvds, mapping, cap, i + 1, p)

\* a loop whose early exit returns the running sum instead of the cap
RECURSIVE CollectLoopOvershoot(_, _, _, _, _)
CollectLoopOvershoot(dvds, mapping, cap, i, pts) ==
  IF i > Len(dvds) THEN Min(pts, cap)
  ELSE LET p == pts + DictGet(mapping, DictGet(dvds[i], "alignment", "aligned"), 0)
       IN  IF p >= cap THEN p
           ELSE CollectLoopOvershoot(dvds, mapping, cap, i + 1, p)

collect_alignment_points_overshoot(dvds, mapping, cap) ==
  CollectLoopOvershoot(dvds, mapping, cap, 1, 0)

\* the sum of all the items' points, clamped afterwards
collect_alignment_points_sum_then_clamp(dvds, mapping, cap) ==
  Min(cap, SumSeq([i \in 1..Len(dvds) |->
                     DictGet(mapping, DictGet(dvds[i], "alignment", "aligned"), 0)]))

collect_alignment_points(dvds, mapping, cap) ==
  CollectLoop(dvds, mapping, cap, 1, 0)

\* offshore_hint: a product name is a sequence of words, a keyword is one
\* word; the substring test of the code is the test that the lower-cased
\* keyword is one of the lower-cased words of the joined product list
offshore_hint(products, keywords) ==
  LET p_l == UNION { {lower(products[i][j]) : j \in 1..Len(products[i])}
                     : i \in 1..Len(products) }
  IN  \E k \in 1..Len(keywords) : lower(keywords[k]) \in p_l

\* cross_border: any source or payment country other than UAE
non_uae(arr) == \E i \in 1..Len(arr) : lower(arr[i]) # "uae"

cross_border(source_countries, payment_countries) ==
  non_uae(source_countries) \/ non_uae(payment_countries)

\* avg, in the unit of the values: <<numerator, denominator>>
avg(values) ==
  IF values = <<>> THEN <<0, 1>> ELSE <<SumSeq(values), Len(values)>>

\* "; ".join(parts)
RECURSIVE Join(_)
Join(parts) ==
  IF parts = <<>> THEN ""
  ELSE IF Len(parts) = 1 THEN parts[1]
  ELSE parts[1] \o "; " \o Join(Tail(parts))

\* the six dimensions in the order the dimensions dict is built
DimensionOrder ==
  <<"geo_risk", "pep_sanctions", "adverse_media", "pattern_risk",
    "evidence_gaps", "product_channel">>

\* a sort that puts an entry before the entries of equal score
RECURSIVE InsertByScoreTiesFirst(_, _)
InsertByScoreTiesFirst(sorted, e) ==
  IF sorted = <<>> THEN <<e>>
  ELSE IF Head(sorted)[1] > e[1]
       THEN <<Head(sorted)>> \o InsertByScoreTiesFirst(Tail(sorted), e)
  ELSE <<e>> \o sorted

RECURSIVE SortByScoreDescTiesReversed(_)
SortByScoreDescTiesReversed(scored) ==
  IF scored = <<>> THEN <<>>
  ELSE InsertByScoreTiesFirst(
         SortByScoreDescTiesReversed(SubSeq(scored, 1, Len(scored) - 1)),
         scored[Len(scored)])

\* list.sort(key = score, reverse = True) is stable: an entry goes after
\* every entry whose score is greater or equal
RECURSIVE InsertByScore(_, _)
InsertByScore(sorted, e) ==
  IF sorted = <<>> THEN <<e>>
  ELSE IF Head(sorted)[1] >= e[1] THEN <<Head(sorted)>> \o InsertByScore(Tail(sorted), e)
  ELSE <<e>> \o sorted

RECURSIVE SortByScoreDesc(_)
SortByScoreDesc(scored) ==
  IF scored = <<>> THEN <<>>
  ELSE InsertByScore(SortByScoreDesc(SubSeq(scored, 1, Len(scored) - 1)),
                     scored[Len(scored)])

RECURSIVE NonEmptyReasons(_)
NonEmptyReasons(scored) ==
  IF scored = <<>> THEN <<>>
  ELSE IF Head(scored)[2] # "" THEN <<Head(scored)[2]>> \o NonEmptyReasons(Tail(scored))
  ELSE NonEmptyReasons(Tail(scored))

collect_top_reasons(dimensions, limit) ==
  LET scored  == [i \in 1..Len(DimensionOrder) |->
                    <<DictGet(dimensions[DimensionOrder[i]], "score", 0),
                      DictGet(dimensions[DimensionOrder[i]], "reason", "")>>]
      nonempty == NonEmptyReasons(SortByScoreDesc(scored))
      reasons == SubSeq(nonempty, 1, Min(limit, Len(nonempty)))
  IN  IF reasons # <<>> THEN Join(reasons) ELSE "Multiple factors"

(***************************************************************************)
(* evaluate: the short-hands read from the payload                         *)
(***************************************************************************)
Screening(payload) == DictGet(payload, "screening_summary", EmptyDict)

Sanctions(payload) == DictGet(Screening(payload), "sanctions", EmptyDict)

Pep(payload) == DictGet(Screening(payload), "pep", EmptyDict)

AdverseMedia(payload) ==
  DictGet(Screening(payload), "adverse_media", [severity |-> "none", hits |-> 0])

RiskFeatures(payload) == DictGet(payload, "risk_features", EmptyDict)

Geo(payload) == DictGet(RiskFeatures(payload), "geo", EmptyDict)

Product(payload) == DictGet(RiskFeatures(payload), "product", EmptyDict)

Channel(payload) == DictGet(RiskFeatures(payload), "channel", EmptyDict)

Dvds(payload) == DictGet(payload, "declared_vs_discovered", <<>>)

Issues(payload) == DictGet(payload, "issues", <<>>)

EvidenceSources(payload) == DictGet(payload, "evidence_sources", <<>>)

SuffAfter(payload) == DictGet(payload, "sufficiency_after_hitl", 0)

PatternTag(payload) == DictGet(payload, "pattern_tag", "Other")

\* the effective thresholds: the request's override if given, else the
\* rulepack's default
SuffMin(rp, payload) ==
  DictGet(DictGet(payload, "thresholds", EmptyDict), "sufficiency_min",
          rp.thresholds.sufficiency_min_default)

EddCut(rp, payload) ==
  DictGet(DictGet(payload, "thresholds", EmptyDict), "edd_cutoff_score",
          rp.thresholds.edd_cutoff_score_default)

(***************************************************************************)
(* Dimension: geo                                                          *)
(***************************************************************************)
dim_geo(rp, payload) ==
  LET geo         == Geo(payload)
      geo_cfg     == rp.dimensions.geo_risk
      base_score  == DictGet(geo_cfg.score_map.base, DictGet(geo, "label", "low"), 5)
      fatf_conf   == geo_cfg.modifiers.fatf_exposure
      pay_countries == DictGet(geo, "payment_countries", <<>>)
      match_grey  == any_in(pay_countries, fatf_conf.list.grey)
      match_black == any_in(pay_countries, fatf_conf.list.black)
      geo_bonus   == IF match_black # "None" THEN fatf_conf.add_if_in.black
                     ELSE IF match_grey # "None" THEN fatf_conf.add_if_in.grey
                     ELSE 0
      reason_geo  ==
        IF match_black # "None"
        THEN "Payments involve FATF blacklisted jurisdiction (" \o match_black \o ")."
        ELSE IF match_grey # "None"
        THEN "Customer residency is " \o DictGet(geo, "customer_country", "UAE")
             \o " (neutral), but remittance to FATF-greylisted jurisdiction noted ("
             \o match_grey \o ")."
        ELSE "Geo exposure aligns with declared residency and sources."
  IN  [score |-> base_score + geo_bonus,
       label |-> DictGet(geo, "label", "low"),
       reason |-> reason_geo]

(***************************************************************************)
(* Dimension: PEP / sanctions                                              *)
(***************************************************************************)
status_to_case(s) == DictGet(s, "status", "clear")

\* the two tests in the other order: possible before match
SelectedTierPossibleFirst(payload) ==
  LET sanc == status_to_case(Sanctions(payload))
      peps == status_to_case(Pep(payload))
  IN  IF "possible" \in {sanc, peps} THEN "possible"
      ELSE IF "match" \in {sanc, peps} THEN "match"
      ELSE "clear"

\* priority: match > possible > clear
SelectedTier(payload) ==
  LET sanc == status_to_case(Sanctions(payload))
      peps == status_to_case(Pep(payload))
  IN  IF "match" \in {sanc, peps} THEN "match"
      ELSE IF "possible" \in {sanc, peps} THEN "possible"
      ELSE "clear"

\* next(r for r in ps_cfg if r["when"] == tier): the index of the first
\* rule of the tier, 0 when the generator is exhausted (StopIteration)
RECURSIVE FirstRuleFrom(_, _, _)
FirstRuleFrom(ps_cfg, tier, i) ==
  IF i > Len(ps_cfg) THEN 0
  ELSE IF ps_cfg[i].when = tier THEN i
  ELSE FirstRuleFrom(ps_cfg, tier, i + 1)

FirstRule(ps_cfg, tier) == FirstRuleFrom(ps_cfg, tier, 1)

\* a lookup that has a default in the possible and clear branches
PsRaisesOnlyForMatch(rp, payload) ==
  /\ SelectedTier(payload) = "match"
  /\ FirstRule(rp.dimensions.pep_sanctions.rules, "match") = 0

\* the lookup of the selected tier raises StopIteration: next() is called
\* without a default
PsRaises(rp, payload) ==
  FirstRule(rp.dimensions.pep_sanctions.rules, SelectedTier(payload)) = 0

\* line 166: the values ps_score, ps_label, ps_reason hold before the lookup
PsInitial ==
  [score |-> 0, label |-> "low",
   reason |-> "No PEP match. No sanctions alerts from screening summary."]

\* the rule the lookup returns; every branch of lines 174-183 overwrites
\* the initial triple with it
PsRule(rp, payload) ==
  LET ps_cfg == rp.dimensions.pep_sanctions.rules
      i      == FirstRule(ps_cfg, SelectedTier(payload))
  IN  IF i = 0 THEN PsInitial ELSE ps_cfg[i]

\* the flag read from the rule of whichever tier was selected
HardEddAnyTier(rp, payload) ==
  DictGet(PsRule(rp, payload), "hard_route", "None") = "EDD"

\* line 177: hard_edd is set in the match branch alone
HardEdd(rp, payload) ==
  /\ SelectedTier(payload) = "match"
  /\ DictGet(PsRule(rp, payload), "hard_route", "None") = "EDD"

dim_ps(rp, payload) ==
  LET rule == PsRule(rp, payload)
  IN  [score |-> rule.score, label |-> rule.label, reason |-> rule.reason,
       hard_route |-> IF HardEdd(rp, payload) THEN "EDD" ELSE "None"]

(***************************************************************************)
(* Dimension: adverse media                                                *)
(***************************************************************************)
dim_am(rp, payload) ==
  LET adverse_media == AdverseMedia(payload)
      am_cfg == rp.dimensions.adverse_media
      sev    == DictGet(adverse_media, "severity", "none")
  IN  [score |-> DictGet(am_cfg.mapping.severity_to_score, sev, 0),
       label |-> DictGet(am_cfg.mapping.severity_to_label, sev, "low"),
       reason |-> IF sev = "none"
                  THEN "No negative media hits in top-tier news sources."
                  ELSE "Adverse media severity " \o sev \o " ("
                       \o ToString(DictGet(adverse_media, "hits", 0)) \o " hits)."]

(***************************************************************************)
(* Dimension: pattern risk                                                 *)
(***************************************************************************)
salaried_high_cash(payload) ==
  /\ PatternTag(payload) \in {"WPS_Salary", "Salary_Plus_Property"}
  /\ DictGet(Channel(payload), "cash_intensity", "None") = "high"

\* a rental trigger that gives way to the salaried-high-cash trigger
rental_count_mismatch_unless_salaried(payload) ==
  /\ ~salaried_high_cash(payload)
  /\ exists_alignment_mismatch(Dvds(payload), {"Property Holdings", "Rental Income"})

rental_count_mismatch(payload) ==
  exists_alignment_mismatch(Dvds(payload), {"Property Holdings", "Rental Income"})

dividend_missing(payload) == exists_alignment_mismatch(Dvds(payload), {"Dividend"})

dim_pr(rp, payload) ==
  LET pat_cfg == rp.dimensions.pattern_risk
      pattern_tag == PatternTag(payload)
      base_pattern == DictGet(pat_cfg.base_by_pattern, pattern_tag,
                              pat_cfg.base_by_pattern["Other"])
      mod_cfg == pat_cfg.inconsistency_modifiers
      pr_score == base_pattern
                  + (IF salaried_high_cash(payload) THEN mod_cfg.salaried_high_cash ELSE 0)
                  + (IF rental_count_mismatch(payload) THEN mod_cfg.rental_count_mismatch ELSE 0)
                  + (IF dividend_missing(payload) THEN mod_cfg.dividend_missing_proof ELSE 0)
      fired == (IF salaried_high_cash(payload)
                THEN <<"Large cash deposits inconsistent with declared salaried profile. Potential layering risk.">>
                ELSE <<>>)
               \o (IF rental_count_mismatch(payload)
                   THEN <<"Mismatch in declared vs discovered rental properties.">>
                   ELSE <<>>)
               \o (IF dividend_missing(payload)
                   THEN <<"Dividend income declared without sufficient proof.">>
                   ELSE <<>>)
      pr_reasons == IF fired = <<>>
                    THEN <<"Pattern risk evaluated for " \o pattern_tag \o ".">>
                    ELSE fired
  IN  [score |-> pr_score,
       label |-> IF pr_score <= 9 THEN "low" ELSE IF pr_score <= 19 THEN "medium" ELSE "high",
       reason |-> Join(pr_reasons)]

(***************************************************************************)
(* Dimension: evidence gaps                                                *)
(***************************************************************************)
RECURSIVE IssuePoints(_, _)
IssuePoints(issues, impact_map) ==
  IF issues = <<>> THEN 0
  ELSE DictGet(impact_map, DictGet(Head(issues), "residual_impact", "none"), 0)
       + IssuePoints(Tail(issues), impact_map)

AlignPts(rp, payload) ==
  LET align_map == rp.dimensions.evidence_gaps.scoring.partial_alignment_points
  IN  collect_alignment_points(Dvds(payload), align_map, align_map["max_alignment_points"])

dim_eg(rp, payload, suff_min) ==
  LET eg_cfg == rp.dimensions.evidence_gaps.scoring
      low == SuffAfter(payload) < suff_min
      base_gap == IF low THEN eg_cfg.base_from_sufficiency.when_low
                  ELSE eg_cfg.base_from_sufficiency.when_ok
      per_issue == Min(IssuePoints(Issues(payload), eg_cfg.per_issue_points),
                       eg_cfg.max_issue_points)
      eg_score == base_gap + per_issue + AlignPts(rp, payload)
      bits == (IF low THEN <<"Evidence sufficiency below policy threshold.">> ELSE <<>>)
              \o (IF \E i \in 1..Len(Issues(payload)) :
                       DictGet(Issues(payload)[i], "type", "None") = "MISSING_EVIDENCE"
                  THEN <<"Missing documentary proof for one or more declared sources.">>
                  ELSE <<>>)
              \o (IF exists_alignment_mismatch(Dvds(payload), {"Property Holdings", "Dividend"})
                  THEN <<"Declared properties/dividends not fully evidenced.">>
                  ELSE <<>>)
      eg_reason_bits == IF bits = <<>> THEN <<"Residual gaps assessed post-HITL.">> ELSE bits
  IN  [score |-> eg_score,
       label |-> IF eg_score <= 7 THEN "low" ELSE IF eg_score <= 15 THEN "medium" ELSE "high",
       reason |-> Join(eg_reason_bits)]

(***************************************************************************)
(* Dimension: product / channel                                            *)
(***************************************************************************)
is_cross_border(payload) ==
  cross_border(DictGet(Geo(payload), "source_countries", <<>>),
               DictGet(Geo(payload), "payment_countries", <<>>))

dim_pc(rp, payload) ==
  LET pc_cfg == rp.dimensions.product_channel
      base_pc == DictGet(pc_cfg.base_by_label, DictGet(Product(payload), "label", "low"), 5)
      ch_add == DictGet(pc_cfg.channel_adders,
                        DictGet(Channel(payload), "onboarding_channel", "branch"), 0)
      off_hint == offshore_hint(DictGet(Product(payload), "products", <<>>),
                                DictGet(pc_cfg, "offshore_keywords", <<>>))
      xb_add == (IF is_cross_border(payload) THEN pc_cfg.cross_border_adders.non_uae_flow ELSE 0)
                + (IF off_hint THEN pc_cfg.cross_border_adders.offshore_investment_hint ELSE 0)
      pc_score == base_pc + ch_add + xb_add
  IN  [score |-> pc_score,
       label |-> IF pc_score <= 7 THEN "low" ELSE IF pc_score <= 14 THEN "medium" ELSE "high",
       reason |-> IF off_hint
                  THEN "Use of offshore investment platform detected; cross-border complexity."
                  ELSE IF is_cross_border(payload)
                  THEN "Cross-border product/channel usage detected."
                  ELSE "Product/channel risk per profile."]

(***************************************************************************)
(* Aggregate, route, explanation, confidence                               *)
(***************************************************************************)
\* lines 107-112: the thresholds bound from the request and the rulepack
Bind(rp, payload) ==
  [suff_min |-> SuffMin(rp, payload),
   edd_cut  |-> EddCut(rp, payload),
   bands    |-> rp.thresholds.bands]

\* lines 131-296: the six dimension results
Dimensions(rp, payload, bound) ==
  [geo_risk        |-> dim_geo(rp, payload),
   pep_sanctions   |-> dim_ps(rp, payload),
   adverse_media   |-> dim_am(rp, payload),
   pattern_risk    |-> dim_pr(rp, payload),
   evidence_gaps   |-> dim_eg(rp, payload, bound.suff_min),
   product_channel |-> dim_pc(rp, payload)]

RECURSIVE SumScores(_, _)
SumScores(dimensions, names) ==
  IF names = <<>> THEN 0
  ELSE dimensions[Head(names)].score + SumScores(dimensions, Tail(names))

\* a sum that leaves the last dimension out
TotalWithoutLast(dimensions) ==
  SumScores(dimensions, SubSeq(DimensionOrder, 1, Len(DimensionOrder) - 1))

\* line 297: sum(v["score"] for v in dimensions.values())
Total(dimensions) == SumScores(dimensions, DimensionOrder)

\* the bands tested from the bottom
RiskLabelMediumFirst(bands, total) ==
  IF total >= bands.medium THEN "medium"
  ELSE IF total >= bands.high THEN "high"
  ELSE "low"

\* lines 299-304: the bands are tested from the top
RiskLabel(bands, total) ==
  IF total >= bands.high THEN "high"
  ELSE IF total >= bands.medium THEN "medium"
  ELSE "low"

\* a route that leaves the sufficiency test out
RouteWithoutSufficiency(dim_ps_result, suff_after, suff_min, total, edd_cut) ==
  IF dim_ps_result.hard_route = "EDD" THEN "EDD"
  ELSE IF total >= edd_cut THEN "EDD"
  ELSE "Baseline"

\* lines 306-312, first true wins: hard route, sufficiency below the
\* minimum, total at or above the cutoff
Route(dim_ps_result, suff_after, suff_min, total, edd_cut) ==
  IF dim_ps_result.hard_route = "EDD" THEN "EDD"
  ELSE IF suff_after < suff_min THEN "EDD"
  ELSE IF total >= edd_cut THEN "EDD"
  ELSE "Baseline"

RedFlags(payload) ==
  (IF salaried_high_cash(payload) THEN <<"Cash deposits unexplained">> ELSE <<>>)
  \o (IF rental_count_mismatch(payload) THEN <<"Mismatch in rental property count">> ELSE <<>>)
  \o (IF is_cross_border(payload)
      THEN <<"Cross-border investments without sufficient evidence">> ELSE <<>>)

RECURSIVE Confidences(_)
Confidences(evidence_sources) ==
  IF evidence_sources = <<>> THEN <<>>
  ELSE <<DictGet(Head(evidence_sources), "confidence", 0)>>
       \o Confidences(Tail(evidence_sources))

\* line 328-329: clamp(avg_conf * (0.8 + 0.2 * suff_after), 0.0, 1.0) as the
\* fraction <<numerator, denominator>>.  With the confidences and suff_after
\* in tenths, avg_conf = a[1] / (10 * a[2]) and the factor is
\* (80 + 2 * suff_after) / 100.
model_confidence(evidence_sources, suff_after) ==
  LET a   == avg(Confidences(evidence_sources))
      den == 1000 * a[2]
  IN  <<clamp(a[1] * (80 + 2 * suff_after), 0, den), den>>

\* round(x, 2) of the fraction x = f[1] / f[2] >= 0, in hundredths, ties to
\* the even neighbour
round2(f) ==
  LET n == 100 * f[1]
      q == n \div f[2]
      r == n % f[2]
  IN  IF 2 * r > f[2] THEN q + 1
      ELSE IF 2 * r = f[2] THEN q + (q % 2)
      ELSE q

\* int(round(total)): the score tables hold Python ints, so total is an
\* int, and round and int return an int unchanged
int_round(total) == total

\* lines 289-352.  The timestamp (the wall clock) is left out of the result.
Aggregate(rp, payload, bound, dimensions) ==
  LET total == Total(dimensions)
      risk_label == RiskLabel(bound.bands, total)
      route == Route(dimensions.pep_sanctions, SuffAfter(payload), bound.suff_min,
                     total, bound.edd_cut)
      primary == collect_top_reasons(dimensions, 3)
  IN  [case_id |-> DictGet(payload, "case_id", "UNKNOWN"),
       risk_score |-> int_round(total),
       risk_label |-> risk_label,
       route |-> route,
       status |-> "assessed",
       model_confidence |-> round2(model_confidence(EvidenceSources(payload), SuffAfter(payload))),
       dimensions |-> dimensions,
       red_flags |-> RedFlags(payload),
       policy_refs |-> DictGet(rp, "policy_refs", <<>>),
       rulepack_version |-> DictGet(rp, "rulepack_version", "unknown"),
       decision_explanation |-> "Overall " \o risk_label \o " risk. " \o primary
                                \o " push the case to " \o route \o ".",
       assessor |-> [agent |-> "RiskAgent-UAE-v2.1", mode |-> "auto",
                     human_reviewer |-> "None"]]

\* evaluate(payload) with rp the rulepack read at line 104
evaluate(rp, payload) ==
  Aggregate(rp, payload, Bind(rp, payload),
            Dimensions(rp, payload, Bind(rp, payload)))

(***************************************************************************)
(* Values of the global RULEPACK: what load_rulepack returns is whatever   *)
(* the document holds under its 'rulepack' key, a mapping or not           *)
(***************************************************************************)
PyDict(d) == [kind |-> "dict", d |-> d]

PyNone == [kind |-> "NoneType", d |-> EmptyDict]

\* HTTP responses
NoResponse == [code |-> 0, error |-> "None", body |-> EmptyDict]

ErrorResponse(code, error) == [code |-> code, error |-> error, body |-> EmptyDict]

OkResponse(body) == [code |-> 200, error |-> "None", body |-> body]

\* evaluate_endpoint: every exception of evaluate becomes a 400 response
evaluate_endpoint(rpv, payload) ==
  IF rpv.kind # "dict" THEN ErrorResponse(400, "TypeError")
  ELSE IF PsRaises(rpv.d, payload) THEN ErrorResponse(400, "StopIteration")
  ELSE OkResponse(evaluate(rpv.d, payload))

(***************************************************************************)
(* load_rulepack: the document at RULEPACK_PATH is the environment's.      *)
(*   missing   : no file at the path              -> FileNotFoundError     *)
(*   malformed : not YAML                         -> yaml.YAMLError        *)
(*   empty     : YAML null (safe_load gives None) -> TypeError at "in"     *)
(*   no_root   : a mapping without 'rulepack'     -> ValueError            *)
(*   root      : a mapping with 'rulepack'        -> its value, unchecked  *)
(***************************************************************************)
Document(state, root) == [state |-> state, root |-> root]

load_rulepack(doc) ==
  CASE doc.state = "missing"   -> [raises |-> "FileNotFoundError", value |-> PyNone]
    [] doc.state = "malformed" -> [raises |-> "YAMLError", value |-> PyNone]
    [] doc.state = "empty"     -> [raises |-> "TypeError", value |-> PyNone]
    [] doc.state = "no_root"   -> [raises |-> "ValueError", value |-> PyNone]
    [] OTHER                   -> [raises |-> "None", value |-> doc.root]

(***************************************************************************)
(* Rulepacks the documents hold.  rulepack.yaml is not part of the         *)
(* sources, so the tables below are inputs: RP1 is a complete rulepack,    *)
(* the others differ from it where the properties checked look.            *)
(***************************************************************************)
RP1 ==
  [rulepack_version |-> "v1",
   policy_refs |-> <<"CBUAE-AML-2023">>,
   thresholds |->
     [sufficiency_min_default |-> 6,
      edd_cutoff_score_default |-> 30,
      bands |-> [medium |-> 18, high |-> 30]],
   dimensions |->
     [geo_risk |->
        [score_map |-> [base |-> [low |-> 2, medium |-> 6, high |-> 12]],
         modifiers |->
           [fatf_exposure |->
              [list |-> [grey |-> <<"PK">>, black |-> <<"IR">>],
               add_if_in |-> [grey |-> 4, black |-> 10]]]],
      pep_sanctions |->
        [rules |->
           << [when |-> "match", score |-> 30, label |-> "high",
               reason |-> "Confirmed PEP or sanctions match.", hard_route |-> "EDD"],
              [when |-> "possible", score |-> 12, label |-> "medium",
               reason |-> "Possible PEP or sanctions match pending review."],
              [when |-> "clear", score |-> 0, label |-> "low",
               reason |-> "No PEP or sanctions match."] >>],
      adverse_media |->
        [mapping |->
           [severity_to_score |-> [none |-> 0, low |-> 3, medium |-> 8, high |-> 15],
            severity_to_label |-> [none |-> "low", low |-> "low",
                                   medium |-> "medium", high |-> "high"]]],
      pattern_risk |->
        [base_by_pattern |-> [WPS_Salary |-> 3, Salary_Plus_Property |-> 5, Other |-> 8],
         inconsistency_modifiers |->
           [salaried_high_cash |-> 7, rental_count_mismatch |-> 5,
            dividend_missing_proof |-> 4]],
      evidence_gaps |->
        [scoring |->
           [base_from_sufficiency |-> [when_low |-> 8, when_ok |-> 2],
            per_issue_points |-> [none |-> 0, low |-> 1, medium |-> 3, high |-> 5],
            max_issue_points |-> 8,
            partial_alignment_points |->
              [aligned |-> 0, partial |-> 2, mismatch |-> 4, missing |-> 5,
               max_alignment_points |-> 10]]],
      product_channel |->
        [base_by_label |-> [low |-> 2, medium |-> 5, high |-> 9],
         channel_adders |-> [branch |-> 0, digital |-> 2],
         offshore_keywords |-> <<"Offshore", "fund">>,
         cross_border_adders |-> [non_uae_flow |-> 3, offshore_investment_hint |-> 4]]]]

\* another version: other thresholds, bands, scores and policy references;
\* the match tier carries no hard-route flag and the possible tier has one
RP2 ==
  [RP1 EXCEPT
     !.rulepack_version = "v2",
     !.policy_refs = <<"CBUAE-AML-2024", "FATF-R10">>,
     !.thresholds = [sufficiency_min_default |-> 5,
                     edd_cutoff_score_default |-> 24,
                     bands |-> [medium |-> 12, high |-> 22]],
     !.dimensions.geo_risk.score_map.base = [low |-> 1, medium |-> 4, high |-> 9],
     !.dimensions.pep_sanctions.rules =
        << [when |-> "match", score |-> 20, label |-> "high",
            reason |-> "Screening match (v2)."],
           [when |-> "possible", score |-> 9, label |-> "medium",
            reason |-> "", hard_route |-> "EDD"],
           [when |-> "clear", score |-> 1, label |-> "low",
            reason |-> "Screening clear (v2)."],
           [when |-> "match", score |-> 99, label |-> "high",
            reason |-> "Shadowed second match rule.", hard_route |-> "EDD"] >>,
     !.dimensions.pattern_risk.base_by_pattern =
        [WPS_Salary |-> 2, Salary_Plus_Property |-> 4, Other |-> 6],
     !.dimensions.evidence_gaps.scoring.base_from_sufficiency =
        [when_low |-> 6, when_ok |-> 1],
     !.dimensions.evidence_gaps.scoring.partial_alignment_points =
        [aligned |-> 0, partial |-> 1, mismatch |-> 3, missing |-> 4,
         max_alignment_points |-> 6]]

\* band thresholds that are not monotonic: high below medium
RP3 ==
  [RP1 EXCEPT !.rulepack_version = "v3",
              !.thresholds.bands = [medium |-> 25, high |-> 16]]

\* no "possible" tier
RP4 ==
  [RP1 EXCEPT !.rulepack_version = "v4",
              !.dimensions.pep_sanctions.rules =
                 << RP1.dimensions.pep_sanctions.rules[1],
                    RP1.dimensions.pep_sanctions.rules[3] >>]

\* only the "possible" tier
RP5 ==
  [RP1 EXCEPT !.rulepack_version = "v5",
              !.dimensions.pep_sanctions.rules =
                 << RP1.dimensions.pep_sanctions.rules[2] >>]

\* pattern modifiers that take the pattern-risk score past the last
\* breakpoint
RP6 ==
  [RP1 EXCEPT !.rulepack_version = "v6",
              !.dimensions.pattern_risk.inconsistency_modifiers =
                 [salaried_high_cash |-> 12, rental_count_mismatch |-> 5,
                  dividend_missing_proof |-> 4]]

Rulepacks == {RP1, RP2, RP3, RP4, RP5, RP6}

\* the documents a reload of the service may find
Documents ==
  { Document("missing", PyNone), Document("malformed", PyNone),
    Document("empty", PyNone), Document("no_root", PyNone),
    Document("root", PyNone) }
  \cup { Document("root", PyDict(rp)) : rp \in {RP1, RP2, RP3} }

(***************************************************************************)
(* Case inputs.  A case is described by one choice per part of the         *)
(* payload; "absent" leaves the key out of the request.                    *)
(***************************************************************************)
MaxVaried == 2

ThresholdChoices ==
  { EmptyDict, [sufficiency_min |-> 3], [edd_cutoff_score |-> 10],
    [sufficiency_min |-> 9, edd_cutoff_score |-> 100] }

StatusChoices == {"absent", "clear", "possible", "match"}

SeverityChoices == {"absent", "none", "high", "critical"}

GeoChoices ==
  { EmptyDict,
    [label |-> "low", customer_country |-> "UAE", source_countries |-> <<"UAE">>,
     payment_countries |-> <<"uae">>],
    [label |-> "medium", customer_country |-> "UAE", payment_countries |-> <<"pk">>],
    [label |-> "severe", source_countries |-> <<"UAE">>,
     payment_countries |-> <<"UAE", "PK", "IR">>] }

PatternChoices == {"absent", "WPS_Salary", "Salary_Plus_Property", "Crypto"}

ChannelChoices ==
  { EmptyDict, [cash_intensity |-> "low", onboarding_channel |-> "branch"],
    [cash_intensity |-> "high", onboarding_channel |-> "digital"] }

ProductChoices ==
  { EmptyDict, [label |-> "medium", products |-> << <<"Savings", "Account">> >>],
    [label |-> "high", products |-> << <<"Savings", "Account">>, <<"Offshore", "Fund">> >>] }

DvdChoices ==
  { <<>>,
    << [source_type |-> "Salary", alignment |-> "aligned"] >>,
    << [source_type |-> "Dividend", alignment |-> "missing"] >>,
    << [source_type |-> "Rental Income", alignment |-> "partial"],
       [source_type |-> "Property Holdings", alignment |-> "mismatch"],
       [source_type |-> "Salary"] >>,
    << [source_type |-> "Dividend", alignment |-> "missing"],
       [source_type |-> "Rental Income", alignment |-> "missing"],
       [alignment |-> "missing"] >> }

IssueChoices ==
  { <<>>,
    << [type |-> "MISSING_EVIDENCE", residual_impact |-> "medium"] >>,
    << [type |-> "MISSING_EVIDENCE", residual_impact |-> "high"],
       [type |-> "INCONSISTENCY", residual_impact |-> "high"],
       [type |-> "OTHER"] >> }

EvidenceChoices ==
  { <<>>, << [confidence |-> 9] >>,
    << [confidence |-> 5], [confidence |-> 8], [source |-> "bank"] >> }

\* sufficiency_after_hitl in tenths; -1 stands for an absent key
SufficiencyChoices == {-1, 2, 6, 10}

\* the empty request and an ordinary low-risk case
EmptyCase ==
  [thr |-> EmptyDict, sanc |-> "absent", pep |-> "absent", sev |-> "absent",
   geo |-> EmptyDict, pattern |-> "absent", channel |-> EmptyDict,
   product |-> EmptyDict, dvds |-> <<>>, issues |-> <<>>, evidence |-> <<>>,
   suff |-> -1]

TypicalCase ==
  [thr |-> EmptyDict, sanc |-> "clear", pep |-> "clear", sev |-> "none",
   geo |-> [label |-> "low", customer_country |-> "UAE",
            source_countries |-> <<"UAE">>, payment_countries |-> <<"uae">>],
   pattern |-> "WPS_Salary",
   channel |-> [cash_intensity |-> "low", onboarding_channel |-> "branch"],
   product |-> EmptyDict,
   dvds |-> << [source_type |-> "Salary", alignment |-> "aligned"] >>,
   issues |-> <<>>, evidence |-> << [confidence |-> 9] >>, suff |-> 10]

\* the cases that differ from a case of S in at most one part
VaryOne(S) ==
  S \cup { [c EXCEPT !.thr = v] : c \in S, v \in ThresholdChoices }
    \cup { [c EXCEPT !.sanc = v] : c \in S, v \in StatusChoices }
    \cup { [c EXCEPT !.pep = v] : c \in S, v \in StatusChoices }
    \cup { [c EXCEPT !.sev = v] : c \in S, v \in SeverityChoices }
    \cup { [c EXCEPT !.geo = v] : c \in S, v \in GeoChoices }
    \cup { [c EXCEPT !.pattern = v] : c \in S, v \in PatternChoices }
    \cup { [c EXCEPT !.channel = v] : c \in S, v \in ChannelChoices }
    \cup { [c EXCEPT !.product = v] : c \in S, v \in ProductChoices }
    \cup { [c EXCEPT !.dvds = v] : c \in S, v \in DvdChoices }
    \cup { [c EXCEPT !.issues = v] : c \in S, v \in IssueChoices }
    \cup { [c EXCEPT !.evidence = v] : c \in S, v \in EvidenceChoices }
    \cup { [c EXCEPT !.suff = v] : c \in S, v \in SufficiencyChoices }

RECURSIVE Vary(_, _)
Vary(S, n) == IF n = 0 THEN S ELSE Vary(VaryOne(S), n - 1)

Cases == Vary({EmptyCase, TypicalCase}, MaxVaried)

\* the request body of a case
Optional(key, present, value) == IF present THEN key :> value ELSE EmptyDict

MakePayload(c) ==
  LET screening ==
        Optional("sanctions", c.sanc # "absent", [status |-> c.sanc])
        @@ Optional("pep", c.pep # "absent", [status |-> c.pep])
        @@ Optional("adverse_media", c.sev # "absent", [severity |-> c.sev, hits |-> 3])
      features ==
        Optional("geo", c.geo # EmptyDict, c.geo)
        @@ Optional("product", c.product # EmptyDict, c.product)
        @@ Optional("channel", c.channel # EmptyDict, c.channel)
  IN  Optional("case_id", screening # EmptyDict, "CASE-1")
      @@ Optional("thresholds", c.thr # EmptyDict, c.thr)
      @@ Optional("screening_summary", screening # EmptyDict, screening)
      @@ Optional("risk_features", features # EmptyDict, features)
      @@ Optional("declared_vs_discovered", c.dvds # <<>>, c.dvds)
      @@ Optional("issues", c.issues # <<>>, c.issues)
      @@ Optional("evidence_sources", c.evidence # <<>>, c.evidence)
      @@ Optional("sufficiency_after_hitl", c.suff # -1, c.suff)
      @@ Optional("pattern_tag", c.pattern # "absent", c.pattern)

Payloads == { MakePayload(c) : c \in Cases }

\* the requests sent to the running service
ServicePayloads ==
  { MakePayload(c) : c \in
      { TypicalCase,
        [TypicalCase EXCEPT !.sanc = "match"],
        [TypicalCase EXCEPT !.pep = "possible"],
        [TypicalCase EXCEPT !.thr = [sufficiency_min |-> 9, edd_cutoff_score |-> 100],
                            !.suff = 6, !.sev = "high"],
        [TypicalCase EXCEPT !.geo = [label |-> "severe", source_countries |-> <<"UAE">>,
                                     payment_countries |-> <<"UAE", "PK", "IR">>],
                            !.dvds = << [source_type |-> "Dividend", alignment |-> "missing"] >>] } }

(***************************************************************************)
(* The service: the two worker threads of the endpoint pool run            *)
(* evaluate_endpoint and reload_rulepack.  evaluate reads the global       *)
(* RULEPACK once, at line 104, into its local rp; a thread is observed     *)
(* after it bound the thresholds, after it built the dimensions and after  *)
(* it returned.  The field overlapped is history: it records that the     *)
(* global was replaced while the evaluation was running.                   *)
(***************************************************************************)
Threads == {"t1", "t2"}

IdleThread ==
  [pc |-> "idle", payload |-> EmptyDict, rp |-> PyNone, bound |-> EmptyDict,
   dimensions |-> EmptyDict, response |-> NoResponse, overlapped |-> FALSE]

\* reading through the global at every use instead
RpLive(t) == IF RULEPACK.kind = "dict" THEN RULEPACK.d ELSE threads[t].rp.d

\* the rulepack a running evaluation reads its configuration from: the
\* local rp of line 104
Rp(t) == threads[t].rp.d

Respond(t, response) ==
  threads' = [threads EXCEPT ![t] =
                [@ EXCEPT !.pc = "idle", !.bound = EmptyDict,
                          !.dimensions = EmptyDict, !.response = response]]

\* lines 365-367 and 104-129
EvalBegin(t, payload) ==
  /\ threads[t].pc = "idle"
  /\ IF RULEPACK.kind # "dict"
     THEN threads' = [threads EXCEPT ![t] =
                        [IdleThread EXCEPT !.payload = payload, !.rp = RULEPACK,
                                           !.response = ErrorResponse(400, "TypeError")]]
     ELSE threads' = [threads EXCEPT ![t] =
                        [IdleThread EXCEPT !.pc = "dimensions", !.payload = payload,
                                           !.rp = RULEPACK,
                                           !.bound = Bind(RULEPACK.d, payload)]]
  /\ UNCHANGED <<RULEPACK, reload_response, args, ret>>

\* lines 131-296
EvalDimensions(t) ==
  /\ threads[t].pc = "dimensions"
  /\ IF PsRaises(Rp(t), threads[t].payload)
     THEN Respond(t, ErrorResponse(400, "StopIteration"))
     ELSE threads' = [threads EXCEPT ![t] =
                        [@ EXCEPT !.pc = "aggregate",
                                  !.dimensions = Dimensions(Rp(t), threads[t].payload,
                                                           threads[t].bound)]]
  /\ UNCHANGED <<RULEPACK, reload_response, args, ret>>

\* lines 297-352 and 368
EvalAggregate(t) ==
  /\ threads[t].pc = "aggregate"
  /\ Respond(t, OkResponse(Aggregate(Rp(t), threads[t].payload, threads[t].bound,
                                     threads[t].dimensions)))
  /\ UNCHANGED <<RULEPACK, reload_response, args, ret>>

\* reload_rulepack: the assignment of line 375 happens when load_rulepack
\* returned; line 376 then calls .get on the new value
Reload(doc) ==
  LET loaded == load_rulepack(doc)
  IN  /\ IF loaded.raises # "None"
         THEN /\ reload_response' = ErrorResponse(500, loaded.raises)
              /\ UNCHANGED RULEPACK
         ELSE /\ RULEPACK' = loaded.value
              /\ reload_response' =
                   IF loaded.value.kind = "dict"
                   THEN OkResponse([status |-> "reloaded",
                                    rulepack |-> DictGet(loaded.value.d,
                                                         "rulepack_version", "unknown")])
                   ELSE ErrorResponse(500, "AttributeError")
      /\ threads' = [t \in Threads |->
                       IF threads[t].pc # "idle" /\ RULEPACK' # RULEPACK
                       THEN [threads[t] EXCEPT !.overlapped = TRUE]
                       ELSE threads[t]]
      /\ UNCHANGED <<args, ret>>

\* line 28: the module is imported when the first load returned
Init ==
  /\ RULEPACK \in { load_rulepack(doc).value :
                      doc \in {d \in Documents : load_rulepack(d).raises = "None"} }
  /\ reload_response = NoResponse
  /\ threads = [t \in Threads |-> IdleThread]
  /\ args = EmptyDict
  /\ ret = NoResponse

Next ==
  \/ \E t \in Threads : \E payload \in ServicePayloads : EvalBegin(t, payload)
  \/ \E t \in Threads : EvalDimensions(t)
  \/ \E t \in Threads : EvalAggregate(t)
  \/ \E doc \in Documents : Reload(doc)

Spec == Init /\ [][Next]_vars

(***************************************************************************)
(* One call of the endpoint on one request under one active rulepack       *)
(***************************************************************************)
InitEval ==
  /\ RULEPACK \in {PyDict(rp) : rp \in Rulepacks} \cup {PyNone}
  /\ reload_response = NoResponse
  /\ threads = [t \in Threads |-> IdleThread]
  /\ args \in Payloads
  /\ ret = NoResponse

CallEvaluate ==
  /\ ret.code = 0
  /\ ret' = evaluate_endpoint(RULEPACK, args)
  /\ UNCHANGED <<RULEPACK, reload_response, threads, args>>

SpecEval == InitEval /\ [][CallEvaluate]_vars

(***************************************************************************)
(* collect_alignment_points on its own: every sequence of at most MaxItems *)
(* items, each of the tables and each of the caps below                    *)
(***************************************************************************)
MaxItems == 3

AlignmentItems ==
  { [alignment |-> "aligned"], [alignment |-> "partial"], [alignment |-> "missing"],
    [alignment |-> "max_alignment_points"], [source_type |-> "Salary"] }

RECURSIVE SeqsUpTo(_, _)
SeqsUpTo(S, n) ==
  IF n = 0 THEN { <<>> }
  ELSE LET shorter == SeqsUpTo(S, n - 1)
       IN  shorter \cup { Append(q, x) : q \in {r \in shorter : Len(r) = n - 1}, x \in S }

AlignmentTables ==
  { RP1.dimensions.evidence_gaps.scoring.partial_alignment_points,
    RP2.dimensions.evidence_gaps.scoring.partial_alignment_points,
    [aligned |-> -3, partial |-> 2, mismatch |-> 4, missing |-> 5,
     max_alignment_points |-> 10] }

AlignmentCaps == {-2, 0, 6, 10}

NoReturn == [done |-> FALSE, value |-> 0]

InitAlign ==
  /\ RULEPACK = PyNone
  /\ reload_response = NoResponse
  /\ threads = [t \in Threads |-> IdleThread]
  /\ args \in [dvds : SeqsUpTo(AlignmentItems, MaxItems),
               mapping : AlignmentTables, cap : AlignmentCaps]
  /\ ret = NoReturn

CallCollect ==
  /\ ~ret.done
  /\ ret' = [done |-> TRUE,
             value |-> collect_alignment_points(args.dvds, args.mapping, args.cap)]
  /\ UNCHANGED <<RULEPACK, reload_response, threads, args>>

SpecAlign == InitAlign /\ [][CallCollect]_vars

(***************************************************************************)
(* The confidence estimate on its own: every list of at most MaxSources    *)
(* evidence sources and each sufficiency below, in tenths; values outside  *)
(* [0, 1] are requests the endpoint accepts as well                        *)
(***************************************************************************)
MaxSources == 2

EvidenceItems ==
  { [confidence |-> c] : c \in {-5, 0, 4, 9, 10, 15} } \cup { [source |-> "bank"] }

SufficiencyValues == {-10, 0, 5, 10, 20}

NoEstimate == [done |-> FALSE, value |-> <<0, 1>>, reported |-> 0]

InitConfidence ==
  /\ RULEPACK = PyNone
  /\ reload_response = NoResponse
  /\ threads = [t \in Threads |-> IdleThread]
  /\ args \in [evidence_sources : SeqsUpTo(EvidenceItems, MaxSources),
               suff_after : SufficiencyValues]
  /\ ret = NoEstimate

CallConfidence ==
  /\ ~ret.done
  /\ ret' = [done |-> TRUE,
             value |-> model_confidence(args.evidence_sources, args.suff_after),
             reported |-> round2(model_confidence(args.evidence_sources, args.suff_after))]
  /\ UNCHANGED <<RULEPACK, reload_response, threads, args>>

SpecConfidence == InitConfidence /\ [][CallConfidence]_vars

(***************************************************************************)
(* collect_top_reasons on its own: the six dimension results in the order  *)
(* evaluate builds them, every score from 0 to MaxScore and every reason   *)
(* either empty or a text naming its dimension                             *)
(***************************************************************************)
MaxScore == 2

DimensionDicts ==
  [ {DimensionOrder[i] : i \in 1..Len(DimensionOrder)} -> [score : 0..MaxScore, some : BOOLEAN] ]

ReasonedDimensions(d) ==
  [name \in DOMAIN d |->
     [score |-> d[name].score,
      reason |-> IF d[name].some THEN "reason of " \o name ELSE ""]]

NoExplanation == [done |-> FALSE, value |-> ""]

InitReasons ==
  /\ RULEPACK = PyNone
  /\ reload_response = NoResponse
  /\ threads = [t \in Threads |-> IdleThread]
  /\ args \in { ReasonedDimensions(d) : d \in DimensionDicts }
  /\ ret = NoExplanation

CallTopReasons ==
  /\ ~ret.done
  /\ ret' = [done |-> TRUE, value |-> collect_top_reasons(args, 3)]
  /\ UNCHANGED <<RULEPACK, reload_response, threads, args>>

SpecReasons == InitReasons /\ [][CallTopReasons]_vars

(***************************************************************************)
(* Properties of one evaluation (SpecEval)                                 *)
(***************************************************************************)
Returned == ret.code = 200

\* the request's override if the request gives one, else the rulepack's
\* default
EffectiveSufficiencyMin ==
  IF "thresholds" \in DOMAIN args /\ "sufficiency_min" \in DOMAIN args.thresholds
  THEN args.thresholds.sufficiency_min
  ELSE RULEPACK.d.thresholds.sufficiency_min_default

EffectiveEddCutoff ==
  IF "thresholds" \in DOMAIN args /\ "edd_cutoff_score" \in DOMAIN args.thresholds
  THEN args.thresholds.edd_cutoff_score
  ELSE RULEPACK.d.thresholds.edd_cutoff_score_default

SufficiencyAfterHitl ==
  IF "sufficiency_after_hitl" \in DOMAIN args THEN args.sufficiency_after_hitl ELSE 0

HardRouted == ret.body.dimensions.pep_sanctions.hard_route = "EDD"

\* C1: evaluate returns route "EDD" exactly when the PEP/sanctions result
\* carries the hard-route flag, or sufficiency_after_hitl is below the
\* effective sufficiency minimum, or the total is at or above the effective
\* EDD cutoff; otherwise the route is "Baseline".
C1_RouteIffAnyCondition ==
  Returned =>
    /\ ret.body.route \in {"EDD", "Baseline"}
    /\ ret.body.route = "EDD" <=>
         \/ HardRouted
         \/ SufficiencyAfterHitl < EffectiveSufficiencyMin
         \/ ret.body.risk_score >= EffectiveEddCutoff

\* a sufficiency below the minimum alone routes the case to EDD
C1_Witness ==
  /\ Returned
  /\ ~HardRouted
  /\ SufficiencyAfterHitl < EffectiveSufficiencyMin
  /\ ret.body.risk_score < EffectiveEddCutoff
  /\ ret.body.route = "EDD"

StatusOf(part) ==
  IF /\ "screening_summary" \in DOMAIN args
     /\ part \in DOMAIN args.screening_summary
     /\ "status" \in DOMAIN args.screening_summary[part]
  THEN args.screening_summary[part].status
  ELSE "clear"

AnyMatch == StatusOf("sanctions") = "match" \/ StatusOf("pep") = "match"

AnyPossible == StatusOf("sanctions") = "possible" \/ StatusOf("pep") = "possible"

PsRules == RULEPACK.d.dimensions.pep_sanctions.rules

TierDefined(tier) == \E i \in 1..Len(PsRules) : PsRules[i].when = tier

\* the rulepack's rule of a tier: the first one in the table
TierRule(tier) ==
  PsRules[CHOOSE i \in 1..Len(PsRules) :
            /\ PsRules[i].when = tier
            /\ \A j \in 1..(i - 1) : PsRules[j].when # tier]

MatchTierHardRoutes ==
  "hard_route" \in DOMAIN TierRule("match") /\ TierRule("match").hard_route = "EDD"

\* C2 (as stated): whenever the sanctions or the PEP status is "match" the
\* route is "EDD" and the PEP/sanctions reason is the match tier's reason.
C2_MatchAlwaysEdd ==
  (Returned /\ AnyMatch) =>
    /\ ret.body.route = "EDD"
    /\ ret.body.dimensions.pep_sanctions.reason = TierRule("match").reason

\* C2 (amended): whenever the sanctions or the PEP status is "match" the
\* PEP/sanctions reason is the match tier's reason verbatim, and the route
\* is "EDD" if the rulepack's match tier carries hard_route "EDD".
C2_MatchReasonAndHardRoute ==
  (Returned /\ AnyMatch) =>
    /\ ret.body.dimensions.pep_sanctions.reason = TierRule("match").reason
    /\ MatchTierHardRoutes => ret.body.route = "EDD"

\* a match under a flagged match tier, with sufficiency and total that
\* would leave the case on the baseline route
C2_Witness ==
  /\ Returned
  /\ AnyMatch
  /\ MatchTierHardRoutes
  /\ SufficiencyAfterHitl >= EffectiveSufficiencyMin
  /\ ret.body.risk_score < EffectiveEddCutoff
  /\ ret.body.route = "EDD"
  /\ ret.body.dimensions.pep_sanctions.reason = TierRule("match").reason

\* C5: the reported risk_score is the sum of the scores of the six
\* dimension results of the returned dimensions map.
C5_ScoreIsSumOfDimensions ==
  Returned =>
    /\ DOMAIN ret.body.dimensions =
         {"geo_risk", "pep_sanctions", "adverse_media", "pattern_risk",
          "evidence_gaps", "product_channel"}
    /\ ret.body.risk_score =
           ret.body.dimensions.geo_risk.score
         + ret.body.dimensions.pep_sanctions.score
         + ret.body.dimensions.adverse_media.score
         + ret.body.dimensions.pattern_risk.score
         + ret.body.dimensions.evidence_gaps.score
         + ret.body.dimensions.product_channel.score

\* every dimension contributes to the total
C5_Witness ==
  /\ Returned
  /\ \A name \in DOMAIN ret.body.dimensions : ret.body.dimensions[name].score > 0

SelectedTierOfCase ==
  IF AnyMatch THEN "match" ELSE IF AnyPossible THEN "possible" ELSE "clear"

AllTiersDefined == \A tier \in {"match", "possible", "clear"} : TierDefined(tier)

\* C7 (as stated): under a rulepack that does not define all three tiers
\* the evaluation ends with a reported error.
C7_ErrorUnlessAllTiers ==
  (ret.code # 0 /\ RULEPACK.kind = "dict" /\ ~AllTiersDefined) => ret.code = 400

\* C7 (amended): the evaluation ends with a reported error (a 400 response
\* and no result) whenever the rulepack does not define the tier selected
\* for the case, and only then; a tier the case does not select may be
\* missing without an error.
C7_ErrorIffSelectedTierMissing ==
  (ret.code # 0 /\ RULEPACK.kind = "dict") =>
    IF TierDefined(SelectedTierOfCase)
    THEN ret.code = 200
    ELSE ret.code = 400 /\ ret.error = "StopIteration" /\ ret.body = EmptyDict

C7_Witness ==
  /\ RULEPACK.kind = "dict"
  /\ ~TierDefined(SelectedTierOfCase)
  /\ ret.code = 400
  /\ ret.error = "StopIteration"

(***************************************************************************)
(* Properties of collect_alignment_points (SpecAlign)                      *)
(***************************************************************************)
\* the points of one item: the table's entry for its alignment, "aligned"
\* when the item has none, 0 when the table has no entry
PointsOf(item, mapping) ==
  LET a == IF "alignment" \in DOMAIN item THEN item.alignment ELSE "aligned"
  IN  IF a \in DOMAIN mapping THEN mapping[a] ELSE 0

PointsSum(dvds, mapping) ==
  SumSeq([i \in 1..Len(dvds) |-> PointsOf(dvds[i], mapping)])

FiftyMissing == [i \in 1..50 |-> [source_type |-> "Dividend", alignment |-> "missing"]]

\* C6: the alignment points collect_alignment_points returns never exceed
\* the cap, and are the cap when items of non-negative points add up to it
\* or beyond; 50 "missing" items of 5 points each under a cap of 10 give 10.
C6_AlignmentPointsCapped ==
  /\ ret.done =>
       /\ ret.value <= args.cap
       /\ ( /\ \A i \in 1..Len(args.dvds) : PointsOf(args.dvds[i], args.mapping) >= 0
            /\ PointsSum(args.dvds, args.mapping) >= args.cap )
          => ret.value = args.cap
  /\ collect_alignment_points(FiftyMissing, [missing |-> 5], 10) = 10

\* the items are worth more than the cap and the cap is returned
C6_Witness ==
  /\ ret.done
  /\ args.cap > 0
  /\ \A i \in 1..Len(args.dvds) : PointsOf(args.dvds[i], args.mapping) > 0
  /\ PointsSum(args.dvds, args.mapping) > args.cap
  /\ ret.value = args.cap

(***************************************************************************)
(* Properties of the confidence estimate (SpecConfidence)                  *)
(***************************************************************************)
ConfidenceOf(source) == IF "confidence" \in DOMAIN source THEN source.confidence ELSE 0

ConfidenceSum ==
  SumSeq([i \in 1..Len(args.evidence_sources) |-> ConfidenceOf(args.evidence_sources[i])])

\* mean * (0.8 + 0.2 * suff_after) is ScaledNumerator / ScaledDenominator
ScaledNumerator == ConfidenceSum * (80 + 2 * args.suff_after)

ScaledDenominator == 1000 * Len(args.evidence_sources)

\* C10: model_confidence lies in [0, 1]; it is the mean of the evidence
\* confidences scaled by (0.8 + 0.2 * sufficiency_after_hitl) and clamped to
\* [0, 1], and 0.0 when the case has no evidence sources; the reported value
\* is that number rounded to two decimals, in [0, 1] as well.
C10_ConfidenceClampedMean ==
  ret.done =>
    LET num == ret.value[1]
        den == ret.value[2]
    IN  /\ den > 0 /\ 0 <= num /\ num <= den
        /\ 0 <= ret.reported /\ ret.reported <= 100
        /\ 2 * (100 * num - ret.reported * den) <= den
        /\ 2 * (ret.reported * den - 100 * num) <= den
        /\ IF args.evidence_sources = <<>>
           THEN num = 0 /\ ret.reported = 0
           ELSE /\ ScaledNumerator < 0 => num = 0
                /\ ScaledNumerator > ScaledDenominator => num = den
                /\ (0 <= ScaledNumerator /\ ScaledNumerator <= ScaledDenominator)
                   => num * ScaledDenominator = ScaledNumerator * den

\* a scaled mean above 1 that the clamp brings back to 1
C10_Witness ==
  /\ ret.done
  /\ args.evidence_sources # <<>>
  /\ ScaledNumerator > ScaledDenominator
  /\ ret.value[1] = ret.value[2]
  /\ ret.reported = 100

(***************************************************************************)
(* Properties of the running service (Spec)                                *)
(***************************************************************************)
\* C3: a reload that fails leaves the active rulepack as it was before the
\* reload.  A step that ends with a failed reload response is a reload that
\* failed (or a step of an evaluation, which assigns neither).
C3_FailedReloadKeepsRulepack ==
  [][reload_response'.code = 500 => RULEPACK' = RULEPACK]_vars

\* what the code does keep: a reload whose load_rulepack raised (no file,
\* not YAML, an empty document, no 'rulepack' root) assigns nothing
LoadFailureKeepsRulepack ==
  [][ ( /\ reload_response'.code = 500
        /\ reload_response'.error \in
             {"FileNotFoundError", "YAMLError", "TypeError", "ValueError"} )
      => RULEPACK' = RULEPACK ]_vars

Finished(t) == threads[t].pc = "idle" /\ threads[t].response.code = 200

\* C4: every value of a result comes from the one rulepack the evaluation
\* read at its start, whatever reloads ran while it was in flight: the
\* result is the result of evaluating the request under that snapshot, with
\* its version, policy references, thresholds and bands.
C4_ResultFromOneSnapshot ==
  \A t \in Threads :
    Finished(t) =>
      LET snapshot == threads[t].rp.d
          payload  == threads[t].payload
          body     == threads[t].response.body
      IN  /\ threads[t].rp.kind = "dict"
          /\ body.rulepack_version = snapshot.rulepack_version
          /\ body.policy_refs = snapshot.policy_refs
          /\ body.dimensions.geo_risk.score = dim_geo(snapshot, payload).score
          /\ body.risk_label = RiskLabel(snapshot.thresholds.bands, body.risk_score)
          /\ body = evaluate(snapshot, payload)

\* an evaluation that returned a result although a reload replaced the
\* active rulepack by another version while it was running
C4_Witness ==
  \E t \in Threads :
    /\ Finished(t)
    /\ threads[t].overlapped
    /\ RULEPACK.kind = "dict"
    /\ RULEPACK.d.rulepack_version # threads[t].response.body.rulepack_version
    /\ RULEPACK.d.thresholds # threads[t].rp.d.thresholds

\* C8: a rulepack whose high band threshold is below its medium band
\* threshold never becomes the active one.
C8_ActiveBandsMonotonic ==
  RULEPACK.kind = "dict" =>
    RULEPACK.d.thresholds.bands.high >= RULEPACK.d.thresholds.bands.medium

Severity(label) == CASE label = "low" -> 0 [] label = "medium" -> 1 [] label = "high" -> 2

\* C9: under one rulepack the label does not become less severe as the
\* total grows: for two results of the same snapshot with totals t1 <= t2
\* the label of t1 is at most as severe as the label of t2; the label is
\* high from the high threshold on, else medium from the medium threshold
\* on, else low.
C9_LabelMonotonicInTotal ==
  /\ \A a, b \in Threads :
       ( /\ Finished(a) /\ Finished(b)
         /\ threads[a].rp = threads[b].rp
         /\ threads[a].response.body.risk_score <= threads[b].response.body.risk_score )
       => Severity(threads[a].response.body.risk_label)
            <= Severity(threads[b].response.body.risk_label)
  /\ \A t \in Threads :
       Finished(t) =>
         LET bands == threads[t].rp.d.thresholds.bands
             total == threads[t].response.body.risk_score
         IN  threads[t].response.body.risk_label =
               IF total >= bands.high THEN "high"
               ELSE IF total >= bands.medium THEN "medium"
               ELSE "low"

\* two results of one rulepack, the smaller total labelled low and the
\* larger one high
C9_Witness ==
  \E a, b \in Threads :
    /\ Finished(a) /\ Finished(b)
    /\ threads[a].rp = threads[b].rp
    /\ threads[a].response.body.risk_score < threads[b].response.body.risk_score
    /\ threads[a].response.body.risk_label = "low"
    /\ threads[b].response.body.risk_label = "high"

(***************************************************************************)
(* Further properties of one evaluation (SpecEval)                         *)
(***************************************************************************)
Labels == {"low", "medium", "high"}

\* C11: each of the six dimension results of a returned assessment has a
\* label that is one of low, medium, high, whatever the case input is.
C11_DimensionLabelsInRange ==
  Returned =>
    \A name \in DOMAIN ret.body.dimensions :
       ret.body.dimensions[name].label \in Labels

\* what the code does keep: the five dimensions other than geo_risk are
\* labelled from the rulepack's tables or from fixed breakpoints
OtherDimensionLabelsInRange ==
  Returned =>
    \A name \in DOMAIN ret.body.dimensions \ {"geo_risk"} :
       ret.body.dimensions[name].label \in Labels

(***************************************************************************)
(* Further properties of the running service (Spec)                        *)
(***************************************************************************)
\* a step of an evaluation: a thread moved on, or answered
EvaluationStep ==
  \E t \in Threads :
     \/ threads'[t].pc # threads[t].pc
     \/ threads'[t].response # threads[t].response
     \/ threads'[t].payload # threads[t].payload

\* C12: no evaluation, successful or failing, changes the active rulepack;
\* the active rulepack changes only in a reload that succeeds, and then it
\* is replaced as a whole by the rulepack of the document loaded.
C12_RulepackChangesOnlyOnSuccessfulReload ==
  [][ /\ EvaluationStep => RULEPACK' = RULEPACK
      /\ RULEPACK' # RULEPACK =>
           /\ reload_response'.code = 200
           /\ RULEPACK'.kind = "dict"
           /\ Document("root", RULEPACK') \in Documents
           /\ reload_response'.body.rulepack = RULEPACK'.d.rulepack_version ]_vars

\* what the code does keep: the steps of an evaluation leave the active
\* rulepack alone, and a change of it is the assignment of a reload
EvaluationKeepsRulepack ==
  [][ /\ EvaluationStep => RULEPACK' = RULEPACK
      /\ RULEPACK' # RULEPACK =>
           /\ reload_response'.code \in {200, 500}
           /\ Document("root", RULEPACK') \in Documents ]_vars

(***************************************************************************)
(* Further properties of collect_alignment_points (SpecAlign)              *)
(***************************************************************************)
\* the running sum after the first k items
PrefixSum(k) == PointsSum(SubSeq(args.dvds, 1, k), args.mapping)

CapReachedOnTheWay == \E k \in 1..Len(args.dvds) : PrefixSum(k) >= args.cap

NoNegativePoints ==
  \A i \in 1..Len(args.dvds) : PointsOf(args.dvds[i], args.mapping) >= 0

\* C13 (as stated): for every sequence of items, every table and every cap
\* collect_alignment_points returns min(cap, sum of the items' points).
C13_EarlyExitIsSumThenClamp ==
  ret.done => ret.value = Min(args.cap, PointsSum(args.dvds, args.mapping))

\* C13 (amended): collect_alignment_points returns the cap when the running
\* sum reaches the cap after some item, and min(cap, sum of the items'
\* points) otherwise; this is min(cap, sum) whenever no item has negative
\* points, and it is never below min(cap, sum).
C13_EarlyExitIsSumThenClampWithoutNegatives ==
  ret.done =>
    /\ ret.value = IF CapReachedOnTheWay THEN args.cap
                   ELSE Min(args.cap, PointsSum(args.dvds, args.mapping))
    /\ NoNegativePoints
         => ret.value = Min(args.cap, PointsSum(args.dvds, args.mapping))
    /\ ret.value >= Min(args.cap, PointsSum(args.dvds, args.mapping))

\* the loop left before the last item, and the value is the clamped sum
C13_Witness ==
  /\ ret.done
  /\ NoNegativePoints
  /\ Len(args.dvds) >= 2
  /\ PrefixSum(Len(args.dvds) - 1) >= args.cap
  /\ PointsSum(args.dvds, args.mapping) > args.cap
  /\ args.cap > 0
  /\ ret.value = Min(args.cap, PointsSum(args.dvds, args.mapping))

(***************************************************************************)
(* Properties of the PEP/sanctions, explanation and pattern-risk parts of  *)
(* one evaluation (SpecEval)                                               *)
(***************************************************************************)
\* C14: the PEP/sanctions result is the (score, label, reason) of the match
\* tier if the sanctions or the PEP status is "match", else of the possible
\* tier if either is "possible", else (missing statuses included) of the
\* clear tier; the hard-route flag is set only when the match tier is
\* selected, and then exactly when the match tier carries it.
C14_TierPrecedence ==
  Returned =>
    LET ps   == ret.body.dimensions.pep_sanctions
        rule == TierRule(SelectedTierOfCase)
    IN  /\ ps.score = rule.score
        /\ ps.label = rule.label
        /\ ps.reason = rule.reason
        /\ ps.hard_route \in {"EDD", "None"}
        /\ ps.hard_route = "EDD" => AnyMatch
        /\ ps.hard_route = "EDD" <=> (AnyMatch /\ MatchTierHardRoutes)

\* one status is "possible" and the other is missing, under a rulepack
\* whose possible tier carries hard_route: the possible triple is used and
\* the flag is not set
C14_Witness ==
  /\ Returned
  /\ AnyPossible
  /\ ~AnyMatch
  /\ "screening_summary" \in DOMAIN args
  /\ DOMAIN args.screening_summary \cap {"sanctions", "pep"} # {"sanctions", "pep"}
  /\ "hard_route" \in DOMAIN TierRule("possible")
  /\ ret.body.dimensions.pep_sanctions.score = TierRule("possible").score
  /\ ret.body.dimensions.pep_sanctions.hard_route = "None"

\* the explanation of a result is built around the top reasons of its own
\* dimensions
ExplanationEmbedsTopReasons ==
  Returned =>
    ret.body.decision_explanation =
      "Overall " \o ret.body.risk_label \o " risk. "
      \o collect_top_reasons(ret.body.dimensions, 3)
      \o " push the case to " \o ret.body.route \o "."

(***************************************************************************)
(* Properties of collect_top_reasons (SpecReasons)                         *)
(***************************************************************************)
CanonicalOrder ==
  <<"geo_risk", "pep_sanctions", "adverse_media", "pattern_risk",
    "evidence_gaps", "product_channel">>

\* dimension i is listed before dimension j: a higher score, or the same
\* score and an earlier place in the canonical order
ListedBefore(i, j) ==
  \/ args[CanonicalOrder[i]].score > args[CanonicalOrder[j]].score
  \/ /\ args[CanonicalOrder[i]].score = args[CanonicalOrder[j]].score
     /\ i < j

WithReason == {i \in 1..Len(CanonicalOrder) : args[CanonicalOrder[i]].reason # ""}

\* the place of a dimension among those that have a reason
Place(i) == 1 + Cardinality({j \in WithReason : ListedBefore(j, i)})

ReasonAt(k) == args[CanonicalOrder[CHOOSE i \in WithReason : Place(i) = k]].reason

ExpectedReasons ==
  CASE Cardinality(WithReason) = 0 -> "Multiple factors"
    [] Cardinality(WithReason) = 1 -> ReasonAt(1)
    [] Cardinality(WithReason) = 2 -> ReasonAt(1) \o "; " \o ReasonAt(2)
    [] OTHER -> ReasonAt(1) \o "; " \o ReasonAt(2) \o "; " \o ReasonAt(3)

\* C15: the reasons are listed by score descending, equal scores in the
\* canonical order geo_risk, pep_sanctions, adverse_media, pattern_risk,
\* evidence_gaps, product_channel; the first up to 3 non-empty ones are
\* joined by "; ", and the generic phrase stands when none is non-empty.
C15_TopReasonsByScoreThenOrder ==
  ret.done => ret.value = ExpectedReasons

\* a tie between the two highest scores, an empty reason among the top
\* ones that is skipped, and more than three non-empty reasons
C15_Witness ==
  /\ ret.done
  /\ Cardinality(WithReason) > 3
  /\ args.geo_risk.score = args.product_channel.score
  /\ args.product_channel.score > args.pep_sanctions.score
  /\ args.evidence_gaps.score > args.product_channel.score
  /\ args.evidence_gaps.reason = ""
  /\ args.pattern_risk.score = args.product_channel.score
  /\ ret.value = "reason of geo_risk; reason of pattern_risk; reason of product_channel"

(***************************************************************************)
(* Properties of the pattern-risk dimension of one evaluation (SpecEval)   *)
(***************************************************************************)
CaseTag == IF "pattern_tag" \in DOMAIN args THEN args.pattern_tag ELSE "Other"

CaseCashIntensity ==
  IF /\ "risk_features" \in DOMAIN args
     /\ "channel" \in DOMAIN args.risk_features
     /\ "cash_intensity" \in DOMAIN args.risk_features.channel
  THEN args.risk_features.channel.cash_intensity
  ELSE "None"

CaseItems ==
  IF "declared_vs_discovered" \in DOMAIN args THEN args.declared_vs_discovered ELSE <<>>

\* some item of one of the source types is partial, mismatch or missing
NotFullyAligned(types) ==
  \E i \in 1..Len(CaseItems) :
     /\ "source_type" \in DOMAIN CaseItems[i]
     /\ CaseItems[i].source_type \in types
     /\ "alignment" \in DOMAIN CaseItems[i]
     /\ CaseItems[i].alignment \in {"partial", "mismatch", "missing"}

SalariedHighCash ==
  CaseTag \in {"WPS_Salary", "Salary_Plus_Property"} /\ CaseCashIntensity = "high"

RentalMismatch == NotFullyAligned({"Property Holdings", "Rental Income"})

DividendMissingProof == NotFullyAligned({"Dividend"})

PatternCfg == RULEPACK.d.dimensions.pattern_risk

PatternBase(tag) ==
  IF tag \in DOMAIN PatternCfg.base_by_pattern
  THEN PatternCfg.base_by_pattern[tag]
  ELSE PatternCfg.base_by_pattern["Other"]

CashPhrase ==
  "Large cash deposits inconsistent with declared salaried profile. Potential layering risk."

\* C16: the pattern-risk score is the base of the pattern tag ("Other" for
\* an unrecognized tag) plus the modifier of every trigger that fires, the
\* three triggers being independent; the label is low up to 9, medium up to
\* 19, else high; with tag WPS_Salary, high cash intensity and no other
\* trigger the score is base(WPS_Salary) + the salaried-high-cash modifier
\* and the reason is the cash-inconsistency phrase.
C16_PatternScoreIsBasePlusFiredModifiers ==
  Returned =>
    LET pr  == ret.body.dimensions.pattern_risk
        mod == PatternCfg.inconsistency_modifiers
    IN  /\ pr.score = PatternBase(CaseTag)
                      + (IF SalariedHighCash THEN mod.salaried_high_cash ELSE 0)
                      + (IF RentalMismatch THEN mod.rental_count_mismatch ELSE 0)
                      + (IF DividendMissingProof THEN mod.dividend_missing_proof ELSE 0)
        /\ pr.label = IF pr.score <= 9 THEN "low"
                      ELSE IF pr.score <= 19 THEN "medium" ELSE "high"
        /\ ( /\ CaseTag = "WPS_Salary" /\ CaseCashIntensity = "high"
             /\ ~RentalMismatch /\ ~DividendMissingProof )
           => /\ pr.score = PatternCfg.base_by_pattern["WPS_Salary"]
                            + mod.salaried_high_cash
              /\ pr.reason = CashPhrase

\* the three triggers fire together, all three modifiers are added and the
\* score is past the last breakpoint
C16_Witness ==
  /\ Returned
  /\ SalariedHighCash /\ RentalMismatch /\ DividendMissingProof
  /\ ret.body.dimensions.pattern_risk.score =
       PatternBase(CaseTag)
       + PatternCfg.inconsistency_modifiers.salaried_high_cash
       + PatternCfg.inconsistency_modifiers.rental_count_mismatch
       + PatternCfg.inconsistency_modifiers.dividend_missing_proof
  /\ ret.body.dimensions.pattern_risk.score > 19
  /\ ret.body.dimensions.pattern_risk.label = "high"

====
